---- MODULE Spec2Model ----
(***************************************************************************)
(* A model of bambi's index decoder (src/src/decode.c): the barcode table, *)
(* the mismatch-tolerant matcher, the per-record processor, the read-group *)
(* header rewriter and the control flow of decode().                       *)
(*                                                                         *)
(* C strings are sequences of one-character strings.  A buffer whose       *)
(* terminator the code may read past (newseq in processRecord) is a memory *)
(* image: the characters, the NUL, and the bytes that follow on the heap.  *)
(* A pointer that may be NULL is a sequence of length 0 (NULL) or 1.       *)
(***************************************************************************)
EXTENDS Integers, Sequences, FiniteSets

VARIABLES
    pc,             \* where decode() is
    opts,           \* opts_t, fixed for the run
    deffile,        \* the barcode definition file (NULL: cannot be opened)
    barcodeArray,   \* bc_array_t* (NULL before the load)
    input_header,   \* the @RG lines of the input header
    output_header,  \* the @RG lines of the header written to the output
    hdr_written,    \* sam_hdr_write succeeded
    remaining,      \* most records the input stream still holds
    in_rec,         \* the record the last sam_read1 returned, as read
    file_read,      \* bam1_t file_read of processRecord, as modified
    paired_read,    \* bam1_t paired_read of processRecord, as modified
    newseq,         \* memory image of newseq handed to findBarcodeName
    name,           \* char *name of processRecord
    p,              \* file_read carries the barcode tag
    best,           \* index findBestMatch returned for file_read
    nFBM,           \* calls of findBestMatch so far
    nRead,          \* records sam_read1 returned
    nWritten,       \* records sam_write1 wrote
    nPrimary,       \* records read as file_read that carry the barcode tag
    write_failed,   \* some sam_write1 of a record returned < 0
    retcode,        \* what decode() returns
    metrics_done,   \* writeMetrics ran to its end
    call,           \* a function under test and its arguments
    ret             \* what it returned

vars == <<pc, opts, deffile, barcodeArray, input_header, output_header,
          hdr_written, remaining, in_rec, file_read, paired_read, newseq,
          name, p, best, nFBM, nRead, nWritten, nPrimary, write_failed,
          retcode, metrics_done, call, ret>>

runVars == <<pc, opts, deffile, barcodeArray, input_header, output_header,
             hdr_written, remaining, in_rec, file_read, paired_read, newseq,
             name, p, best, nFBM, nRead, nWritten, nPrimary, write_failed,
             retcode, metrics_done>>

(***************************************************************************)
(* Bounds of the model.                                                    *)
(***************************************************************************)
MaxLen == 2         \* longest barcode of the function-level specifications
MaxEntries == 2     \* most real barcodes in a table of those specifications
MaxRecs == 2        \* most records in the input stream of a run

(***************************************************************************)
(* Program constants.                                                      *)
(***************************************************************************)
DEFAULT_MAX_LOW_QUALITY_TO_CONVERT == 15
DEFAULT_MAX_NO_CALLS == 2
DEFAULT_MAX_MISMATCHES == 1
DEFAULT_MIN_MISMATCH_DELTA == 1
PhredOffset == 33

(***************************************************************************)
(* Pointers and strings.                                                   *)
(***************************************************************************)
NULLP == <<>>
Ptr(x) == <<x>>
IsNull(q) == q = <<>>
Deref(q) == q[1]

NUL == "NUL"
TAB == "\t"

Min(a, b) == IF a < b THEN a ELSE b
Max(a, b) == IF a > b THEN a ELSE b

\* All sequences over S of length lo..hi.
SeqsOf(S, lo, hi) == UNION {[1..n -> S] : n \in lo..hi}

\* n copies of c (calloc + memset in loadBarcodeFile).
Repeat(c, n) == [i \in 1..n |-> c]

\* strlen of a memory image: the bytes before the first NUL.
RECURSIVE strlenFrom(_, _)
strlenFrom(buf, i) ==
    IF i > Len(buf) \/ buf[i] = NUL THEN i - 1 ELSE strlenFrom(buf, i + 1)

strlen(buf) == strlenFrom(buf, 1)

\* The memory image of a freshly allocated copy of s: s, its NUL and the
\* heap bytes after the allocation.
Image(s, heap) == s \o <<NUL>> \o heap

(***************************************************************************)
(* Matcher: isNoCall, noCalls, countMismatches, checkBarcodeQuality,       *)
(* findBestMatch.                                                          *)
(***************************************************************************)
isNoCall(b) == b = "N" \/ b = "n" \/ b = "."

RECURSIVE noCallsFrom(_, _)
noCallsFrom(s, i) ==
    IF i > Len(s) \/ s[i] = NUL THEN 0
    ELSE (IF isNoCall(s[i]) THEN 1 ELSE 0) + noCallsFrom(s, i + 1)

noCalls(s) == noCallsFrom(s, 1)

\* for (t=tag, b=barcode; *t; t++, b++): the loop runs over the tag and
\* reads barcode at the same offsets, whatever barcode holds there.
RECURSIVE countMismatchesFrom(_, _, _)
countMismatchesFrom(tag, barcode, i) ==
    IF i > Len(tag) THEN 0
    ELSE (IF ~isNoCall(tag[i])
          THEN (IF ~isNoCall(barcode[i])
                THEN (IF tag[i] # barcode[i] THEN 1 ELSE 0)
                ELSE 0)
          ELSE 0) + countMismatchesFrom(tag, barcode, i + 1)

countMismatches_noBarcodeNoCall(tag, barcode) ==
    Cardinality({i \in 1..Len(tag) : ~isNoCall(tag[i]) /\ tag[i] # barcode[i]})

countMismatches(tag, barcode) == countMismatchesFrom(tag, barcode, 1)

\* The result is NULL when the lengths differ, else a new string.
checkBarcodeQuality_strict(barcode, quality, max_low_quality_to_convert) ==
    IF IsNull(quality) THEN Ptr(barcode)
    ELSE IF Len(barcode) # Len(Deref(quality)) THEN NULLP
    ELSE LET mlq == IF max_low_quality_to_convert # 0
                    THEN max_low_quality_to_convert
                    ELSE DEFAULT_MAX_LOW_QUALITY_TO_CONVERT
             q == Deref(quality)
         IN  Ptr([i \in 1..Len(q) |->
                    IF q[i] - PhredOffset < mlq THEN "N" ELSE barcode[i]])

checkBarcodeQuality(barcode, quality, max_low_quality_to_convert) ==
    IF IsNull(quality) THEN Ptr(barcode)
    ELSE IF Len(barcode) # Len(Deref(quality)) THEN NULLP
    ELSE LET mlq == IF max_low_quality_to_convert # 0
                    THEN max_low_quality_to_convert
                    ELSE DEFAULT_MAX_LOW_QUALITY_TO_CONVERT
             q == Deref(quality)
         IN  Ptr([i \in 1..Len(q) |->
                    IF q[i] - PhredOffset <= mlq THEN "N" ELSE barcode[i]])

\* best_match is an index into entries; NoMatch is the NULL of the code.
NoMatch == -1

RECURSIVE findBestMatchLoop(_, _, _, _, _, _)
findBestMatchLoop(barcode, bA, n, best_match, nmBest, nm2Best) ==
    IF n >= bA.end
    THEN [best_match |-> best_match, nmBest |-> nmBest, nm2Best |-> nm2Best]
    ELSE LET nMismatches == countMismatches(bA.entries[n].seq, barcode) IN
         IF nMismatches < nmBest
         THEN findBestMatchLoop(barcode, bA, n + 1, n, nMismatches,
                                IF best_match # NoMatch THEN nmBest ELSE nm2Best)
         ELSE findBestMatchLoop(barcode, bA, n + 1, best_match, nmBest,
                                IF nMismatches < nm2Best THEN nMismatches
                                                         ELSE nm2Best)

\* The index of the entry returned (0 is entries[0], the null-metrics entry).
findBestMatch(barcode, bA, o) ==
    LET bcLen == bA.tag_len
        nCalls == noCalls(barcode)
        r == findBestMatchLoop(barcode, bA, 1, NoMatch, bcLen, bcLen)
        matched == /\ r.best_match # NoMatch
                   /\ nCalls <= o.max_no_calls
                   /\ r.nmBest <= o.max_mismatches
                   /\ r.nm2Best - r.nmBest >= o.min_mismatch_delta
    IN  IF matched THEN r.best_match ELSE 0

(***************************************************************************)
(* Barcode table: bc_init, bc_push, loadBarcodeFile, updateMetrics.        *)
(* entries is indexed from 0 as in the code; entries[0] is the entry for   *)
(* null metrics.                                                           *)
(***************************************************************************)
NewEntry(seq, nm, lib, sample, desc) ==
    [seq |-> seq, name |-> nm, lib |-> lib, sample |-> sample, desc |-> desc,
     reads |-> 0, pf_reads |-> 0, perfect |-> 0, pf_perfect |-> 0,
     one_mismatch |-> 0, pf_one_mismatch |-> 0]

bc_push(bc, bcd) ==
    [bc EXCEPT !.end = bc.end + 1,
               !.entries = [i \in 0..bc.end |->
                              IF i = bc.end THEN bcd ELSE bc.entries[i]]]

\* The first entry's seq is not set here (NULL in the code, <<>> here):
\* loadBarcodeFile sets it once the tag length is known.
bc_init ==
    bc_push([end |-> 0, tag_len |-> 0, entries |-> <<>>],
            NewEntry(<<>>, <<"0">>, <<>>, <<>>, <<>>))

\* strtok(buf, "\t") over one line: the non-empty fields, in order.
\* A line is given as its tab-separated fields.
strtokFields(line) == SelectSeq(line, LAMBDA f : f # <<>>)

\* The loop over the data lines.  status is "ok" (a table is returned),
\* "null" (NULL is returned) or "crash" (strdup(NULL): a token is missing).
RECURSIVE loadLines(_, _, _, _)
loadLines(lines, i, bA, tag_length) ==
    IF i > Len(lines)
    THEN [status |-> "ok",
          bA |-> [bA EXCEPT !.tag_len = tag_length,
                            !.entries[0].seq = Repeat("N", tag_length)]]
    ELSE LET s == strtokFields(lines[i]) IN
         IF Len(s) < 5 THEN [status |-> "crash", bA |-> bA]
         ELSE LET bcd == NewEntry(s[1], s[2], s[3], s[4], s[5])
                  pushed == bc_push(bA, bcd)
              IN  IF tag_length = 0
                  THEN loadLines(lines, i + 1, pushed, Len(bcd.seq))
                  ELSE IF tag_length # Len(bcd.seq)
                       THEN [status |-> "null", bA |-> pushed]
                       ELSE loadLines(lines, i + 1, pushed, tag_length)

\* file: NULL when fopen or the read of the header line fails, else the
\* data lines that follow the header line.
loadBarcodeFile(file) ==
    IF IsNull(file) THEN [status |-> "null", bA |-> bc_init]
    ELSE loadLines(Deref(file), 1, bc_init, 0)

\* The entry bcd after updateMetrics(bcd, seq, isPf).
updateMetrics(bcd, seq, isPf) ==
    LET n == countMismatches(bcd.seq, seq) IN
    [bcd EXCEPT !.reads = @ + 1,
                !.pf_reads = IF isPf THEN @ + 1 ELSE @,
                !.perfect = IF n = 0 THEN @ + 1 ELSE @,
                !.pf_perfect = IF n = 0 /\ isPf THEN @ + 1 ELSE @,
                !.one_mismatch = IF n = 1 THEN @ + 1 ELSE @,
                !.pf_one_mismatch = IF n = 1 /\ isPf THEN @ + 1 ELSE @]

\* findBarcodeName: the index matched and the table after updateMetrics.
findBarcodeName(barcode, bA, o, isPf) ==
    LET bcd == findBestMatch(barcode, bA, o) IN
    [best |-> bcd,
     name |-> bA.entries[bcd].name,
     bA |-> [bA EXCEPT !.entries[bcd] = updateMetrics(@, barcode, isPf)]]

(***************************************************************************)
(* Records (bam1_t): makeNewTag, add_suffix.                               *)
(***************************************************************************)
\* bam_init1(): no name, no flags, no aux fields.
EmptyRec ==
    [qname |-> <<>>, paired |-> FALSE, qcfail |-> FALSE,
     bc |-> NULLP, qt |-> NULLP, rg |-> NULLP]

bam_aux_get(rec, tag) ==
    CASE tag = "RG" -> rec.rg
      [] tag = "BC" -> rec.bc
      [] tag = "QT" -> rec.qt

makeNewTag(rec, tag, nm) ==
    LET q == bam_aux_get(rec, tag)
        rg == IF IsNull(q) THEN <<>> ELSE Deref(q)
    IN  rg \o <<"#">> \o nm

add_suffix(rec, suffix) == [rec EXCEPT !.qname = @ \o <<"#">> \o suffix]

(***************************************************************************)
(* Header rewriter: addNewRG, changeHeader.  A header is the sequence of   *)
(* its @RG lines; a line is the sequence of its tags, each the string      *)
(* "KK:value" (SAM_hdr_tag.str); the line's name is the value of its ID.   *)
(***************************************************************************)
IsDelim(c, delim) == c \in delim

RECURSIVE skipDelims(_, _)
skipDelims(s, delim) ==
    IF s # <<>> /\ IsDelim(Head(s), delim) THEN skipDelims(Tail(s), delim) ELSE s

RECURSIVE tokenLen(_, _, _)
tokenLen(s, delim, i) ==
    IF i > Len(s) \/ IsDelim(s[i], delim) THEN i - 1 ELSE tokenLen(s, delim, i + 1)

\* strtok_r on the rest of the string: leading delimiters are skipped, the
\* token ends at the next delimiter, which is consumed.  tok is NULL when
\* only delimiters are left.
strtok_r(save, delim) ==
    LET s == skipDelims(save, delim)
        n == tokenLen(s, delim, 1)
    IN  IF s = <<>> THEN [tok |-> NULLP, save |-> <<>>]
        ELSE [tok |-> Ptr(SubSeq(s, 1, n)),
              save |-> SubSeq(s, n + 2, Len(s))]

TagKey(str) == SubSeq(str, 1, 2)
TagVal(str) == SubSeq(str, 4, Len(str))
MkTag(k, v) == TagKey(k) \o <<":">> \o v

\* sam_hdr_update(sh, hdr, t, v): the tag of the line whose key is t gets
\* the value v; a line without the tag gets it appended.
sam_hdr_update(line, t, v) ==
    IF \E i \in 1..Len(line) : TagKey(line[i]) = TagKey(t)
    THEN [i \in 1..Len(line) |->
            IF TagKey(line[i]) = TagKey(t) THEN MkTag(t, v) ELSE line[i]]
    ELSE Append(line, MkTag(t, v))

\* The while (1) loop of addNewRG over the rest of entry.
RECURSIVE addNewRGLoop(_, _, _, _, _, _)
addNewRGLoop(line, save, bcname, lib, sample, desc) ==
    LET t == strtok_r(save, {":"}) IN
    IF IsNull(t.tok) THEN line
    ELSE LET v == strtok_r(t.save, {TAB}) IN
         IF IsNull(v.tok) THEN line
         ELSE LET tt == Deref(t.tok)
                  v1 == IF tt = <<"P", "U">>
                        THEN Deref(v.tok) \o <<"#">> \o bcname
                        ELSE Deref(v.tok)
                  v2 == IF tt = <<"L", "B">> /\ ~IsNull(lib) THEN Deref(lib) ELSE v1
                  v3 == IF tt = <<"D", "S">> /\ ~IsNull(desc) THEN Deref(desc) ELSE v2
                  v4 == IF tt = <<"S", "M">> /\ ~IsNull(sample) THEN Deref(sample) ELSE v3
              IN  addNewRGLoop(sam_hdr_update(line, tt, v4), v.save,
                               bcname, lib, sample, desc)

addNewRG_noSuffix(sh, entry, bcname, lib, sample, desc) ==
    LET id == strtok_r(entry, {TAB})
        line == <<MkTag(<<"I", "D">>, Deref(id.tok))>>
    IN  Append(sh, addNewRGLoop(line, id.save, bcname, lib, sample, desc))

\* The header sh with the line that addNewRG adds.  sam_hdr_add appends an
\* @RG line holding the new ID; sam_hdr_find then returns that line, the
\* last one added under the ID.
addNewRG(sh, entry, bcname, lib, sample, desc) ==
    LET id == strtok_r(entry, {TAB})
        newtag == Deref(id.tok) \o <<"#">> \o bcname
        line == <<MkTag(<<"I", "D">>, newtag)>>
    IN  Append(sh, addNewRGLoop(line, id.save, bcname, lib, sample, desc))

\* rgArray[n]: <name>\t<tag>:<val>\t<tag>:<val>..., the ID tag left out.
RECURSIVE rgEntryTags(_, _)
rgEntryTags(tags, i) ==
    IF i > Len(tags) THEN <<>>
    ELSE (IF SubSeq(tags[i], 1, 3) # <<"I", "D", ":">>
          THEN <<TAB>> \o tags[i] ELSE <<>>) \o rgEntryTags(tags, i + 1)

RgName(tags) ==
    LET i == CHOOSE j \in 1..Len(tags) : TagKey(tags[j]) = <<"I", "D">>
    IN  TagVal(tags[i])

rgEntry(tags) == RgName(tags) \o rgEntryTags(tags, 1)

\* for (i=1; i < barcodeArray->end; i++) addNewRG(sh, entry, bcd->name, ...)
RECURSIVE changeHeaderBarcodes(_, _, _, _)
changeHeaderBarcodes(sh, entry, bA, i) ==
    IF i >= bA.end THEN sh
    ELSE LET bcd == bA.entries[i] IN
         changeHeaderBarcodes(
             addNewRG(sh, entry, bcd.name, Ptr(bcd.lib), Ptr(bcd.sample),
                      Ptr(bcd.desc)),
             entry, bA, i + 1)

RECURSIVE changeHeaderLoop(_, _, _, _)
changeHeaderLoop(sh, rgArray, bA, n) ==
    IF n > Len(rgArray) THEN sh
    ELSE changeHeaderLoop(
             changeHeaderBarcodes(
                 addNewRG(sh, rgArray[n], <<"0">>, NULLP, NULLP, NULLP),
                 rgArray[n], bA, 1),
             rgArray, bA, n + 1)

\* The @RG lines of the header after changeHeader: the old ones are
\* deleted, the new ones added in order.
changeHeader(bA, h) ==
    LET rgArray == [n \in 1..Len(h) |-> rgEntry(h[n])]
    IN  changeHeaderLoop(<<>>, rgArray, bA, 1)

(***************************************************************************)
(* processRecord, lines 749-771: the record rec, which carries the barcode *)
(* tag, is matched, counted and tagged.  heap is what follows newseq in    *)
(* memory.  crash: checkBarcodeQuality returned NULL and newseq is         *)
(* dereferenced (line 762, or noCalls under findBestMatch).                *)
(***************************************************************************)
tagRecord(rec, heap, bA, o) ==
    LET seq == Deref(bam_aux_get(rec, "BC"))
        q == bam_aux_get(rec, "QT")
        conv == IF o.convert_low_quality /\ ~IsNull(q)
                THEN checkBarcodeQuality(seq, q, o.max_low_quality_to_convert)
                ELSE Ptr(seq)
    IN  IF IsNull(conv)
        THEN [crash |-> TRUE, bA |-> bA, name |-> NULLP, best |-> NoMatch,
              newseq |-> NULLP, rec |-> rec]
        ELSE LET img == Image(Deref(conv), heap)
                 ns == IF Len(seq) > bA.tag_len
                       THEN [img EXCEPT ![bA.tag_len + 1] = NUL]
                       ELSE img
                 f == findBarcodeName(ns, bA, o, ~rec.qcfail)
                 tagged == [rec EXCEPT !.rg = Ptr(makeNewTag(rec, "RG", f.name))]
             IN  [crash |-> FALSE, bA |-> f.bA, name |-> Ptr(f.name),
                  best |-> f.best, newseq |-> Ptr(ns),
                  rec |-> IF o.change_read_name THEN add_suffix(tagged, f.name)
                          ELSE tagged]

tagMate_unmatched(rec, nm, hasTag, o) ==
    LET tagged == IF hasTag
                  THEN [rec EXCEPT !.rg = Ptr(makeNewTag(rec, "RG", <<"0">>))]
                  ELSE rec
    IN  IF o.change_read_name /\ IsNull(nm)
        THEN [crash |-> TRUE, rec |-> tagged]
        ELSE [crash |-> FALSE,
              rec |-> IF o.change_read_name THEN add_suffix(tagged, <<"0">>)
                      ELSE tagged]

\* processRecord, lines 780-785: the mate gets the tag and the suffix of
\* file_read.  crash: add_suffix(paired_read, NULL).
tagMate(rec, nm, hasTag, o) ==
    LET tagged == IF hasTag
                  THEN [rec EXCEPT !.rg = Ptr(makeNewTag(rec, "RG", Deref(nm)))]
                  ELSE rec
    IN  IF o.change_read_name /\ IsNull(nm)
        THEN [crash |-> TRUE, rec |-> tagged]
        ELSE [crash |-> FALSE,
              rec |-> IF o.change_read_name THEN add_suffix(tagged, Deref(nm))
                      ELSE tagged]

(***************************************************************************)
(* Inputs of a run.                                                        *)
(***************************************************************************)
Digit == <<"1", "2", "3", "4", "5", "6", "7", "8", "9">>

QualLow == PhredOffset          \* '!', Phred 0
QualHigh == PhredOffset + 40    \* 'I', Phred 40

Row(seq, nm) == <<seq, nm, <<"l">> \o nm, <<"s">> \o nm, <<"d">> \o nm>>

RowAA == Row(<<"A", "A">>, <<"1">>)
RowCC == Row(<<"C", "C">>, <<"2">>)

\* Lines of a definition file: well-formed ones, two of other lengths,
\* one with four fields, one with six, one whose library is empty.
DefRows ==
    {RowAA, RowCC, Row(<<"A">>, <<"3">>), Row(<<"A", "A", "A">>, <<"4">>),
     <<<<"A", "A">>, <<"1">>, <<"l">>, <<"s">>>>,
     Row(<<"C", "C">>, <<"2">>) \o << <<"x">> >>,
     <<<<"A", "A">>, <<"1">>, <<>>, <<"s">>, <<"d">>>>}

MaxRows == 2

AllDefFiles == {NULLP} \cup {Ptr(rows) : rows \in SeqsOf(DefRows, 0, MaxRows)}

RunDefFiles == {Ptr(<<RowAA, RowCC>>), Ptr(<<RowAA>>)}

DefaultOpts ==
    [convert_low_quality |-> FALSE,
     max_low_quality_to_convert |-> DEFAULT_MAX_LOW_QUALITY_TO_CONVERT,
     max_no_calls |-> DEFAULT_MAX_NO_CALLS,
     max_mismatches |-> DEFAULT_MAX_MISMATCHES,
     min_mismatch_delta |-> DEFAULT_MIN_MISMATCH_DELTA,
     change_read_name |-> FALSE,
     metrics_name |-> FALSE]

RunOpts ==
    {[DefaultOpts EXCEPT !.convert_low_quality = c, !.change_read_name = n,
                         !.metrics_name = m] : c, n, m \in BOOLEAN}

Records ==
    [qname : {<<"r">>}, paired : BOOLEAN, qcfail : BOOLEAN,
     bc : {NULLP, Ptr(<<"A", "A">>), Ptr(<<"A", "C">>), Ptr(<<"A">>),
           Ptr(<<"A", "A", "C">>)},
     qt : {NULLP, Ptr(<<QualLow, QualHigh>>)},
     rg : {NULLP, Ptr(<<"g">>)}]

\* The records read as mates.  Lines 778-791 read the mate's RG field and
\* name only; its barcode field varies to show that it is not looked at.
Mates ==
    [qname : {<<"m">>}, paired : {TRUE}, qcfail : {FALSE},
     bc : {NULLP, Ptr(<<"C", "C">>)}, qt : {NULLP},
     rg : {NULLP, Ptr(<<"h">>)}]

HeapBytes == {"A", "C", "N"}

\* The bytes after newseq that countMismatches can reach.
HeapAfter(rec, bA) ==
    IF IsNull(rec.bc) THEN {<<>>}
    ELSE LET k == Max(0, bA.tag_len - Len(Deref(rec.bc)) - 1)
         IN  SeqsOf(HeapBytes, k, k)

RunHeader == <<<<<<"I", "D", ":", "1">>, <<"P", "U", ":", "u">>>>>>

(***************************************************************************)
(* decode(): the run.                                                      *)
(***************************************************************************)
InitRun(files, options, maxrecs) ==
    /\ pc = "load"
    /\ opts \in options
    /\ deffile \in files
    /\ barcodeArray = NULLP
    /\ input_header = RunHeader
    /\ output_header = <<>>
    /\ hdr_written = FALSE
    /\ remaining = maxrecs
    /\ in_rec = NULLP
    /\ file_read = EmptyRec
    /\ paired_read = EmptyRec
    /\ newseq = NULLP
    /\ name = NULLP
    /\ p = FALSE
    /\ best = NoMatch
    /\ nFBM = 0
    /\ nRead = 0
    /\ nWritten = 0
    /\ nPrimary = 0
    /\ write_failed = FALSE
    /\ retcode = 1
    /\ metrics_done = FALSE
    /\ call = [fn |-> "none"]
    /\ ret = NULLP

\* lines 816-817
Load ==
    /\ pc = "load"
    /\ LET r == loadBarcodeFile(deffile) IN
       /\ pc' = CASE r.status = "ok" -> "open"
                  [] r.status = "null" -> "done"
                  [] r.status = "crash" -> "crashed"
       /\ barcodeArray' = IF r.status = "ok" THEN Ptr(r.bA) ELSE NULLP
    /\ UNCHANGED <<opts, deffile, input_header, output_header, hdr_written,
                   remaining, in_rec, file_read, paired_read, newseq, name, p,
                   best, nFBM, nRead, nWritten, nPrimary, write_failed,
                   retcode, metrics_done, call, ret>>

\* lines 822-864: the streams are opened and the input header is read and
\* duplicated; any failure leaves the loop.
OpenFiles ==
    /\ pc = "open"
    /\ \E ok \in BOOLEAN : pc' = IF ok THEN "header" ELSE "done"
    /\ UNCHANGED <<opts, deffile, barcodeArray, input_header, output_header,
                   hdr_written, remaining, in_rec, file_read, paired_read,
                   newseq, name, p, best, nFBM, nRead, nWritten, nPrimary,
                   write_failed, retcode, metrics_done, call, ret>>

\* lines 867-872
WriteHeader ==
    /\ pc = "header"
    /\ output_header' = changeHeader(Deref(barcodeArray), input_header)
    /\ \E ok \in BOOLEAN :
         /\ hdr_written' = ok
         /\ pc' = IF ok THEN "records" ELSE "done"
    /\ UNCHANGED <<opts, deffile, barcodeArray, input_header, remaining,
                   in_rec, file_read, paired_read, newseq, name, p, best,
                   nFBM, nRead, nWritten, nPrimary, write_failed, retcode,
                   metrics_done, call, ret>>

\* processRecord, lines 741-746: sam_read1 meets the end of the file,
\* which may come after any record.
ProcessEOF ==
    /\ pc = "records"
    /\ remaining' = 0
    /\ pc' = "metrics"
    /\ in_rec' = NULLP
    /\ file_read' = EmptyRec
    /\ paired_read' = EmptyRec
    /\ name' = NULLP
    /\ UNCHANGED <<opts, deffile, barcodeArray, input_header, output_header,
                   hdr_written, newseq, p, best, nFBM, nRead,
                   nWritten, nPrimary, write_failed, retcode, metrics_done,
                   call, ret>>

\* processRecord, lines 737-777: a record is read into file_read, tagged
\* when it carries the barcode tag, and written.
ProcessPrimary ==
    /\ pc = "records"
    /\ remaining > 0
    /\ \E rec \in Records, wrote \in BOOLEAN :
       \E heap \in HeapAfter(rec, Deref(barcodeArray)) :
         LET hasTag == ~IsNull(bam_aux_get(rec, "BC"))
             t == IF hasTag THEN tagRecord(rec, heap, Deref(barcodeArray), opts)
                  ELSE [crash |-> FALSE, bA |-> Deref(barcodeArray),
                        name |-> NULLP, best |-> NoMatch, newseq |-> NULLP,
                        rec |-> rec]
         IN  /\ remaining' = remaining - 1
             /\ nRead' = nRead + 1
             /\ in_rec' = Ptr(rec)
             /\ paired_read' = EmptyRec
             /\ p' = hasTag
             /\ nPrimary' = IF hasTag THEN nPrimary + 1 ELSE nPrimary
             /\ newseq' = t.newseq
             /\ IF t.crash
                THEN /\ pc' = "crashed"
                     /\ file_read' = rec
                     /\ UNCHANGED <<barcodeArray, name, best, nFBM, nWritten,
                                    write_failed>>
                ELSE /\ barcodeArray' = Ptr(t.bA)
                     /\ name' = t.name
                     /\ best' = t.best
                     /\ nFBM' = IF hasTag THEN nFBM + 1 ELSE nFBM
                     /\ file_read' = t.rec
                     /\ nWritten' = IF wrote THEN nWritten + 1 ELSE nWritten
                     /\ write_failed' = (write_failed \/ ~wrote)
                     /\ pc' = IF ~wrote THEN "metrics"
                              ELSE IF rec.paired THEN "mate" ELSE "records"
    /\ UNCHANGED <<opts, deffile, input_header, output_header, hdr_written,
                   retcode, metrics_done, call, ret>>

\* processRecord, lines 778-795: the record after a paired file_read is
\* read into paired_read, tagged like file_read, and written.  The result
\* of sam_read1 is not looked at: at the end of the file paired_read is
\* still the record bam_init1 made.
ProcessMate ==
    /\ pc = "mate"
    /\ \E eof \in {remaining = 0, TRUE}, wrote \in BOOLEAN :
       \E rec \in (IF eof THEN {EmptyRec} ELSE Mates) :
         LET t == tagMate(rec, name, p, opts) IN
         /\ remaining' = IF eof THEN 0 ELSE remaining - 1
         /\ nRead' = IF eof THEN nRead ELSE nRead + 1
         /\ in_rec' = IF eof THEN NULLP ELSE Ptr(rec)
         /\ paired_read' = t.rec
         /\ IF t.crash
            THEN /\ pc' = "crashed"
                 /\ UNCHANGED <<nWritten, write_failed>>
            ELSE /\ nWritten' = IF wrote THEN nWritten + 1 ELSE nWritten
                 /\ write_failed' = (write_failed \/ ~wrote)
                 /\ pc' = IF wrote THEN "records" ELSE "metrics"
    /\ UNCHANGED <<opts, deffile, barcodeArray, input_header, output_header,
                   hdr_written, file_read, newseq, name, p, best, nFBM,
                   nPrimary, retcode, metrics_done, call, ret>>

writeMetrics_clearsEntry0(bA) ==
    [bA EXCEPT !.entries[0].perfect = 0,
               !.entries[0].pf_perfect = 0,
               !.entries[0].reads = 0,
               !.entries[0].pf_reads = 0,
               !.entries[0].name = <<>>]

\* writeMetrics, lines 404-407: what it does to the table.
writeMetrics(bA) ==
    [bA EXCEPT !.entries[0].perfect = 0,
               !.entries[0].pf_perfect = 0,
               !.entries[0].name = <<>>]

\* lines 882-889: the loop over the records has ended, for whatever reason.
Metrics ==
    /\ pc = "metrics"
    /\ pc' = "done"
    /\ IF opts.metrics_name
       THEN \E opened \in BOOLEAN :
              /\ barcodeArray' = IF opened
                                 THEN Ptr(writeMetrics(Deref(barcodeArray)))
                                 ELSE barcodeArray
              /\ metrics_done' = opened
              /\ retcode' = IF opened THEN 0 ELSE retcode
       ELSE /\ retcode' = 0
            /\ UNCHANGED <<barcodeArray, metrics_done>>
    /\ UNCHANGED <<opts, deffile, input_header, output_header, hdr_written,
                   remaining, in_rec, file_read, paired_read, newseq, name, p,
                   best, nFBM, nRead, nWritten, nPrimary, write_failed, call,
                   ret>>

Init == InitRun(RunDefFiles, RunOpts, MaxRecs)

Next ==
    \/ Load
    \/ OpenFiles
    \/ WriteHeader
    \/ ProcessPrimary
    \/ ProcessMate
    \/ ProcessEOF
    \/ Metrics

Spec == Init /\ [][Next]_vars

\* The same run over every definition file, with the default options.
InitLoad == InitRun(AllDefFiles, {DefaultOpts}, 1)

SpecLoad == InitLoad /\ [][Next]_vars

(***************************************************************************)
(* Function-level specifications: the arguments are drawn in the initial   *)
(* state, the one action applies the function.  ret is NULL until then.    *)
(***************************************************************************)
IdleRun ==
    /\ pc = "idle"
    /\ opts = DefaultOpts
    /\ deffile = NULLP
    /\ barcodeArray = NULLP
    /\ input_header = <<>>
    /\ output_header = <<>>
    /\ hdr_written = FALSE
    /\ remaining = 0
    /\ in_rec = NULLP
    /\ file_read = EmptyRec
    /\ paired_read = EmptyRec
    /\ newseq = NULLP
    /\ name = NULLP
    /\ p = FALSE
    /\ best = NoMatch
    /\ nFBM = 0
    /\ nRead = 0
    /\ nWritten = 0
    /\ nPrimary = 0
    /\ write_failed = FALSE
    /\ retcode = 1
    /\ metrics_done = FALSE

Bases == {"A", "C"}
NoCallChars == {"N", "n", "."}

\* countMismatches on two strings of one length.
InitCM ==
    /\ IdleRun
    /\ \E n \in 1..MaxLen :
       \E a \in SeqsOf(Bases \cup NoCallChars, n, n),
          b \in SeqsOf(Bases \cup NoCallChars, n, n) :
         call = [fn |-> "countMismatches", a |-> a, b |-> b]
    /\ ret = NULLP

ApplyCM ==
    /\ call.fn = "countMismatches"
    /\ ret = NULLP
    /\ ret' = Ptr(countMismatches(call.a, Image(call.b, <<>>)))
    /\ UNCHANGED <<runVars, call>>

SpecCM == InitCM /\ [][ApplyCM]_vars

\* checkBarcodeQuality on a barcode, a quality string (or none) and a
\* threshold.
QualChars == {33, 40, 48, 49, 73}
Thresholds == {0, 7, 15, 40}

InitQual ==
    /\ IdleRun
    /\ \E b \in SeqsOf(Bases \cup {"N"}, 1, MaxLen),
          q \in {NULLP} \cup {Ptr(x) : x \in SeqsOf(QualChars, 1, MaxLen)},
          t \in Thresholds :
         call = [fn |-> "checkBarcodeQuality", barcode |-> b, quality |-> q,
                 threshold |-> t]
    /\ ret = NULLP

ApplyQual ==
    /\ call.fn = "checkBarcodeQuality"
    /\ ret = NULLP
    /\ ret' = Ptr(checkBarcodeQuality(call.barcode, call.quality, call.threshold))
    /\ UNCHANGED <<runVars, call>>

SpecQual == InitQual /\ [][ApplyQual]_vars

\* findBestMatch on a loaded table, an observed barcode of the table's
\* tag length and the three matching options.
TableOf(rows) == loadBarcodeFile(Ptr(rows)).bA

MatchTables ==
    {TableOf(<<>>)} \cup
    UNION {{TableOf([i \in 1..Len(seqs) |-> Row(seqs[i], <<Digit[i]>>)]) :
              seqs \in SeqsOf(SeqsOf(Bases, n, n), 1, MaxEntries)} :
           n \in 1..MaxLen}

InitMatch ==
    /\ IdleRun
    /\ \E bA \in MatchTables :
       \E observed \in SeqsOf(Bases \cup {"N"}, bA.tag_len, bA.tag_len),
          nc \in 0..MaxLen, mm \in 0..MaxLen, delta \in 0..2 :
         call = [fn |-> "findBestMatch", barcode |-> observed, bA |-> bA,
                 o |-> [DefaultOpts EXCEPT !.max_no_calls = nc,
                                           !.max_mismatches = mm,
                                           !.min_mismatch_delta = delta]]
    /\ ret = NULLP

ApplyMatch ==
    /\ call.fn = "findBestMatch"
    /\ ret = NULLP
    /\ ret' = Ptr(findBestMatch(Image(call.barcode, <<>>), call.bA, call.o))
    /\ UNCHANGED <<runVars, call>>

SpecMatch == InitMatch /\ [][ApplyMatch]_vars

\* changeHeader on a header and a loaded table.  A header is one @RG line
\* with any of PU, LB, DS, SM, CN, each with a plain value, an empty one or
\* one that holds ':', or two different lines out of three plain ones.
HdrKeys == <<<<"P", "U">>, <<"L", "B">>, <<"D", "S">>, <<"S", "M">>, <<"C", "N">>>>
HdrValues == {NULLP, Ptr(<<"x">>), Ptr(<<>>), Ptr(<<"x", ":", "y">>)}

IdTag(id) == <<"I", "D", ":">> \o id

RichLine(c) ==
    <<IdTag(<<"1">>)>> \o
    SelectSeq([i \in 1..Len(HdrKeys) |->
                 IF IsNull(c[i]) THEN <<>> ELSE MkTag(HdrKeys[i], Deref(c[i]))],
              LAMBDA t : t # <<>>)

PlainLines ==
    {<<IdTag(<<"1">>), MkTag(<<"P", "U">>, <<"u">>)>>,
     <<IdTag(<<"2">>), MkTag(<<"L", "B">>, <<"b">>), MkTag(<<"C", "N">>, <<"x", ":", "y">>)>>,
     <<IdTag(<<"3">>)>>}

Headers ==
    {<<>>} \cup {<<RichLine(c)>> : c \in [1..Len(HdrKeys) -> HdrValues]}
           \cup {h \in PlainLines \X PlainLines : h[1] # h[2]}

HdrRows == {Row(<<"A", "A">>, <<d>>) : d \in {"0", "1", "2"}}

HdrTables == {TableOf(rows) : rows \in SeqsOf(HdrRows, 0, MaxEntries)}

InitHdr ==
    /\ IdleRun
    /\ \E h \in Headers, bA \in HdrTables :
         call = [fn |-> "changeHeader", h |-> h, bA |-> bA]
    /\ ret = NULLP

ApplyHdr ==
    /\ call.fn = "changeHeader"
    /\ ret = NULLP
    /\ ret' = Ptr(changeHeader(call.bA, call.h))
    /\ UNCHANGED <<runVars, call>>

SpecHdr == InitHdr /\ [][ApplyHdr]_vars

(***************************************************************************)
(* writeMetrics: what it writes.  A ratio is kept as numerator and         *)
(* denominator; the value the code prints for a zero denominator is 0/1.   *)
(***************************************************************************)
Ratio_unguarded(num, den) == [num |-> num, den |-> den]

Ratio(num, den) ==
    IF den # 0 THEN [num |-> num, den |-> den] ELSE [num |-> 0, den |-> 1]

\* writeMetricsLine, lines 314-334: one row of the report.
writeMetricsLine(bcd, total_reads, max_reads, total_pf_reads, max_pf_reads, total_pf_reads_assigned, nReads) ==
    [seq |-> bcd.seq, name |-> bcd.name, lib |-> bcd.lib,
     sample |-> bcd.sample, desc |-> bcd.desc,
     reads |-> bcd.reads, pf_reads |-> bcd.pf_reads,
     perfect |-> bcd.perfect, pf_perfect |-> bcd.pf_perfect,
     one_mismatch |-> bcd.one_mismatch,
     pf_one_mismatch |-> bcd.pf_one_mismatch,
     pct_matches |-> Ratio(bcd.reads, total_reads),
     ratio_this_barcode_to_best |-> Ratio(bcd.reads, max_reads),
     pf_pct_matches |-> Ratio(bcd.pf_reads, total_pf_reads),
     pf_ratio_this_barcode_to_best |-> Ratio(bcd.pf_reads, max_pf_reads),
     pf_normalized_matches |->
         Ratio(bcd.pf_reads * nReads, total_pf_reads_assigned)]

\* writeMetrics, lines 358-366: the first loop, from entry n on.
RECURSIVE metricsTotals(_, _, _)
metricsTotals(bA, n, t) ==
    IF n >= bA.end THEN t
    ELSE LET bcd == bA.entries[n] IN
         metricsTotals(bA, n + 1,
            [total_reads |-> t.total_reads + bcd.reads,
             total_pf_reads |-> t.total_pf_reads + bcd.pf_reads,
             total_pf_reads_assigned |-> t.total_pf_reads_assigned + bcd.pf_reads,
             max_reads |-> Max(t.max_reads, bcd.reads),
             max_pf_reads |-> Max(t.max_pf_reads, bcd.pf_reads),
             nReads |-> t.nReads + 1])

\* writeMetrics, lines 339-412: the totals it computes and the rows it
\* prints, the real entries first and entry 0 last, after entry 0 lost its
\* perfect counters and its name (writeMetrics(bA) is the table after it).
metricsFile(bA) ==
    LET t == metricsTotals(bA, 1,
                [total_reads |-> bA.entries[0].reads,
                 total_pf_reads |-> bA.entries[0].pf_reads,
                 total_pf_reads_assigned |-> 0,
                 max_reads |-> 0, max_pf_reads |-> 0, nReads |-> 0])
        line(bcd, assigned) ==
            writeMetricsLine(bcd, t.total_reads, t.max_reads, t.total_pf_reads,
                             t.max_pf_reads, assigned, t.nReads)
    IN  [totals |-> t,
         rows |-> [n \in 1..bA.end |->
                     IF n < bA.end
                     THEN line(bA.entries[n], t.total_pf_reads_assigned)
                     ELSE line(writeMetrics(bA).entries[0], 0)]]

\* writeMetrics on a table that findBarcodeName has counted up to MaxReads
\* reads into.
MaxReads == 3

MetricsRows == <<RowAA, RowCC>>

MetricsTables == {TableOf(SubSeq(MetricsRows, 1, k)) : k \in 0..Len(MetricsRows)}

InitMetrics ==
    /\ IdleRun
    /\ \E bA \in MetricsTables :
         call = [fn |-> "writeMetrics", bA |-> bA, counted |-> 0]
    /\ ret = NULLP

CountRead ==
    /\ call.fn = "writeMetrics"
    /\ ret = NULLP
    /\ call.counted < MaxReads
    /\ \E observed \in SeqsOf(Bases \cup {"N"}, call.bA.tag_len, call.bA.tag_len),
          isPf \in BOOLEAN :
         call' = [call EXCEPT
                    !.bA = findBarcodeName(Image(observed, <<>>), call.bA,
                                           DefaultOpts, isPf).bA,
                    !.counted = @ + 1]
    /\ UNCHANGED <<runVars, ret>>

ApplyMetrics ==
    /\ call.fn = "writeMetrics"
    /\ ret = NULLP
    /\ ret' = Ptr(metricsFile(call.bA))
    /\ UNCHANGED <<runVars, call>>

NextMetrics == CountRead \/ ApplyMetrics

SpecMetrics == InitMetrics /\ [][NextMetrics]_vars

(***************************************************************************)
(* Properties.                                                             *)
(***************************************************************************)
SetMin(S) == CHOOSE x \in S : \A y \in S : x <= y

\* Positions at which two strings of one length hold different called bases.
CalledDiffs(a, b) ==
    {i \in 1..Len(a) : ~isNoCall(a[i]) /\ ~isNoCall(b[i]) /\ a[i] # b[i]}

NoCallCount(str) == Cardinality({i \in 1..Len(str) : isNoCall(str[i])})

\* What find_best_match is said to return: the first entry with the least
\* mismatch count when the three conditions hold, else entry 0.  With no
\* other entry, second_best is the tag length, the count no entry exceeds.
SaidBestMatch(observed, bA, o) ==
    LET real == 1..(bA.end - 1)
        mm(i) == Cardinality(CalledDiffs(bA.entries[i].seq, observed))
        bestmm == SetMin({mm(i) : i \in real})
        first == SetMin({i \in real : mm(i) = bestmm})
        others == real \ {first}
        second == IF others = {} THEN bA.tag_len
                  ELSE SetMin({mm(i) : i \in others})
    IN  IF real = {} THEN 0
        ELSE IF /\ NoCallCount(observed) <= o.max_no_calls
                /\ bestmm <= o.max_mismatches
                /\ second - bestmm >= o.min_mismatch_delta
             THEN first
             ELSE 0

\* C1: find_best_match returns the first entry achieving the minimum
\* mismatch count iff no-calls <= max_no_calls, best <= max_mismatches and
\* second_best - best >= min_mismatch_delta; otherwise the sentinel.
C1_FindBestMatch ==
    (call.fn = "findBestMatch" /\ ~IsNull(ret)) =>
        Deref(ret) = SaidBestMatch(call.barcode, call.bA, call.o)

\* C10: count_mismatches(a, b) is the number of positions where neither
\* string holds a no-call and the characters differ; so it is the Hamming
\* distance of strings without no-calls, and 0 for a string and itself.
C10_CountMismatches ==
    (call.fn = "countMismatches" /\ ~IsNull(ret)) =>
        /\ Deref(ret) = Cardinality(CalledDiffs(call.a, call.b))
        /\ (\A i \in 1..Len(call.a) : ~isNoCall(call.a[i]) /\ ~isNoCall(call.b[i]))
              => Deref(ret) = Cardinality({i \in 1..Len(call.a) : call.a[i] # call.b[i]})
        /\ call.a = call.b => Deref(ret) = 0

\* A no-call in the barcode faces a called base of the tag, next to a
\* mismatch of two called bases.
C10_Witness ==
    /\ call.fn = "countMismatches" /\ ~IsNull(ret)
    /\ Len(call.a) >= 2
    /\ \E i \in 1..Len(call.a) : ~isNoCall(call.a[i]) /\ isNoCall(call.b[i])
    /\ \E i \in 1..Len(call.a) : isNoCall(call.a[i]) /\ ~isNoCall(call.b[i])
    /\ Deref(ret) = 0

\* What convert_low_quality is said to return for the threshold t.
SaidConverted(barcode, quality, t) ==
    IF IsNull(quality) THEN barcode
    ELSE [i \in 1..Len(barcode) |->
            IF Deref(quality)[i] - PhredOffset <= t THEN "N" ELSE barcode[i]]

QualApplies ==
    /\ call.fn = "checkBarcodeQuality" /\ ~IsNull(ret)
    /\ (IsNull(call.quality) \/ Len(Deref(call.quality)) = Len(call.barcode))

\* C9 as stated: for every threshold from 0 up, position i of the result
\* is 'N' iff quality[i] - 33 <= threshold, and barcode[i] otherwise.
C9_AnyThreshold ==
    QualApplies =>
        Deref(ret) = Ptr(SaidConverted(call.barcode, call.quality, call.threshold))

\* C9, amended: so it is for every threshold from 1 up; a threshold of 0
\* stands for the default threshold, 15.  Without a quality string the
\* barcode is returned as it is.
C9_ConvertLowQuality ==
    QualApplies =>
        Deref(ret) = Ptr(SaidConverted(call.barcode, call.quality,
                            IF call.threshold = 0
                            THEN DEFAULT_MAX_LOW_QUALITY_TO_CONVERT
                            ELSE call.threshold))

\* Threshold 0 converts a base of Phred 7.
C9_Witness ==
    /\ QualApplies
    /\ call.threshold = 0
    /\ ~IsNull(call.quality)
    /\ \E i \in 1..Len(call.barcode) :
         /\ Deref(call.quality)[i] = 40
         /\ call.barcode[i] # "N"
         /\ Deref(Deref(ret))[i] = "N"

\* The value of tag key in an @RG line, NULL when the line has no such tag.
TagOf(line, key) ==
    IF \E i \in 1..Len(line) : TagKey(line[i]) = key
    THEN Ptr(TagVal(line[CHOOSE i \in 1..Len(line) : TagKey(line[i]) = key]))
    ELSE NULLP

LineId(line) == Deref(TagOf(line, <<"I", "D">>))

HdrDone == call.fn = "changeHeader" /\ ~IsNull(ret)

\* The pairs (original line n, table entry i) and the ID said for each.
HdrPairs == {<<n, i>> : n \in 1..Len(call.h), i \in 0..(call.bA.end - 1)}
SaidId(pair) ==
    LineId(call.h[pair[1]]) \o <<"#">> \o call.bA.entries[pair[2]].name

\* The line emitted for a pair: the lines come by original line, entry 0
\* first.
EmittedAt(pair) == (pair[1] - 1) * call.bA.end + pair[2] + 1

\* C7 as stated: for every original line R and every entry E exactly one
\* line has the ID R.ID#E.name; there are (original lines) x (1 + real
\* entries) lines; none keeps an original ID.
C7_ExactlyOnePerId ==
    HdrDone =>
        LET out == Deref(ret) IN
        /\ Len(out) = Len(call.h) * call.bA.end
        /\ \A pair \in HdrPairs :
             Cardinality({j \in 1..Len(out) : LineId(out[j]) = SaidId(pair)}) = 1
        /\ \A j \in 1..Len(out), n \in 1..Len(call.h) :
             LineId(out[j]) # LineId(call.h[n])

\* C7, amended: one line is emitted for every pair of an original line R
\* and an entry E, with the ID R.ID#E.name; there are (original lines) x
\* (1 + real entries) lines; none keeps an original ID; as many lines hold
\* an ID as there are pairs that compose it, so the line is the only one
\* of its ID when no two entries share a name and none is named "0".
C7_HeaderIds ==
    HdrDone =>
        LET out == Deref(ret) IN
        /\ Len(out) = Len(call.h) * call.bA.end
        /\ \A pair \in HdrPairs : LineId(out[EmittedAt(pair)]) = SaidId(pair)
        /\ \A pair \in HdrPairs :
             Cardinality({j \in 1..Len(out) : LineId(out[j]) = SaidId(pair)})
               = Cardinality({q \in HdrPairs : SaidId(q) = SaidId(pair)})
        /\ \A j \in 1..Len(out), n \in 1..Len(call.h) :
             LineId(out[j]) # LineId(call.h[n])

\* Two original lines and two real entries; one entry is named "0" like
\* entry 0, so two lines share an ID.
C7_Witness ==
    /\ HdrDone
    /\ Len(call.h) = 2
    /\ call.bA.end = 3
    /\ Len(Deref(ret)) = 6
    /\ \E i \in 1..2 : call.bA.entries[i].name = <<"0">>
    /\ \E j, k \in 1..6 : j # k /\ LineId(Deref(ret)[j]) = LineId(Deref(ret)[k])

\* What tag str of original line R is said to become in the line emitted
\* for entry i.
SaidTag(str, i) ==
    LET key == TagKey(str)
        E == call.bA.entries[i]
    IN  CASE key = <<"P", "U">> -> TagVal(str) \o <<"#">> \o E.name
          [] key = <<"L", "B">> -> IF i = 0 THEN TagVal(str) ELSE E.lib
          [] key = <<"S", "M">> -> IF i = 0 THEN TagVal(str) ELSE E.sample
          [] key = <<"D", "S">> -> IF i = 0 THEN TagVal(str) ELSE E.desc
          [] OTHER -> TagVal(str)

\* C8: in the line emitted for R and E, PU is R.PU#E.name; LB, SM, DS are
\* R's values for the sentinel and E's library, sample, description for a
\* real barcode; every other tag of R has its original value, an empty
\* value or one with ':' included.
C8_HeaderTags ==
    HdrDone =>
        \A pair \in HdrPairs :
          LET R == call.h[pair[1]]
              line == Deref(ret)[EmittedAt(pair)]
          IN  \A t \in 1..Len(R) :
                TagKey(R[t]) # <<"I", "D">> =>
                    TagOf(line, TagKey(R[t])) = Ptr(SaidTag(R[t], pair[2]))

RECURSIVE SumReadsTo(_, _)
SumReadsTo(bA, i) ==
    IF i < 0 THEN 0 ELSE bA.entries[i].reads + SumReadsTo(bA, i - 1)

\* The sum of reads over all entries of the table.
SumReads(bA) == SumReadsTo(bA, bA.end - 1)

\* C2: after a failed write of a record the run does not end with status 0.
C2_WriteFailureIsFatal ==
    (pc = "done" /\ write_failed) => retcode # 0

\* file_read carries a barcode and a quality string of another length.
QualityLengthDiffers(rec) ==
    /\ ~IsNull(rec.bc)
    /\ ~IsNull(rec.qt)
    /\ Len(Deref(rec.bc)) # Len(Deref(rec.qt))

\* C3: with low-quality conversion on, a record whose quality string
\* differs in length from its barcode is processed with the barcode as it
\* is: it is matched, counted and tagged, and the run goes on.
C3_LengthMismatchIsLocal ==
    (pc # "idle" /\ opts.convert_low_quality /\ QualityLengthDiffers(file_read)) =>
        /\ pc # "crashed"
        /\ ~IsNull(newseq)
        /\ ~IsNull(name)
        /\ SubSeq(Deref(newseq), 1, strlen(Deref(newseq)))
             = SubSeq(Deref(file_read.bc), 1,
                      Min(Len(Deref(file_read.bc)), Deref(barcodeArray).tag_len))

\* A definition with a line that has not five fields, or whose sequence is
\* not as long as the first line's.
BadDefinition(file) ==
    /\ ~IsNull(file)
    /\ \E i \in 1..Len(Deref(file)) :
         \/ Len(Deref(file)[i]) # 5
         \/ Len(Deref(file)[i][1]) # Len(Deref(file)[1][1])

\* C4: for such a definition load returns an error and no table, and the
\* run ends with a non-zero status before a header or a record is written.
\* (A run that dies in the load is let pass here as one that ended so.)
C4_BadDefinitionRejected ==
    (pc # "idle" /\ BadDefinition(deffile)) =>
        /\ pc \in {"load", "done", "crashed"}
        /\ IsNull(barcodeArray)
        /\ pc = "done" => retcode # 0
        /\ ~hdr_written
        /\ nWritten = 0

\* C5: a record read as file_read that carries the barcode tag changes
\* the counters of exactly the entry find_best_match returns for it, once:
\* reads +1, pf_reads +1 iff not fail-QC, perfect (one_mismatch) +1 iff the
\* mismatch count is 0 (1), the pf_ ones iff pass-filter too; the sum of
\* reads stays the number of such records.
C5_CountedOnce ==
    [][(pc = "records" /\ nPrimary' = nPrimary + 1) =>
         /\ ~IsNull(newseq')
         /\ LET bA == Deref(barcodeArray)
                observed == Deref(newseq')
                e == findBestMatch(observed, bA, opts)
                n == countMismatches(bA.entries[e].seq, observed)
                pf == ~Deref(in_rec').qcfail
                old == bA.entries[e]
                new == Deref(barcodeArray').entries[e]
            IN  /\ \A i \in 0..(bA.end - 1) :
                     i # e => Deref(barcodeArray').entries[i] = bA.entries[i]
                /\ new.reads = old.reads + 1
                /\ new.pf_reads = old.pf_reads + (IF pf THEN 1 ELSE 0)
                /\ new.perfect = old.perfect + (IF n = 0 THEN 1 ELSE 0)
                /\ new.pf_perfect = old.pf_perfect + (IF n = 0 /\ pf THEN 1 ELSE 0)
                /\ new.one_mismatch = old.one_mismatch + (IF n = 1 THEN 1 ELSE 0)
                /\ new.pf_one_mismatch
                     = old.pf_one_mismatch + (IF n = 1 /\ pf THEN 1 ELSE 0)
         /\ SumReads(Deref(barcodeArray')) = nPrimary'
    ]_vars

RgOrEmpty(rec) == IF IsNull(rec.rg) THEN <<>> ELSE Deref(rec.rg)

\* C6: the record read after a paired file_read that carries the barcode
\* tag and was assigned entry E gets the read group <its own or
\* empty>#<E.name>, E.name being what file_read got, gets #<E.name> added
\* to its name iff names are changed, and reading it calls findBestMatch
\* for nothing and changes no counter, whatever barcode it carries.
C6_MateFollowsPrimary ==
    [][(pc = "mate" /\ p /\ nRead' = nRead + 1) =>
         LET E == Deref(barcodeArray).entries[best]
             primary == Deref(in_rec)
             mate == Deref(in_rec')
         IN  /\ file_read.rg = Ptr(RgOrEmpty(primary) \o <<"#">> \o E.name)
             /\ paired_read'.rg = Ptr(RgOrEmpty(mate) \o <<"#">> \o E.name)
             /\ paired_read'.qname
                  = IF opts.change_read_name THEN mate.qname \o <<"#">> \o E.name
                    ELSE mate.qname
             /\ nFBM' = nFBM
             /\ barcodeArray' = barcodeArray
             /\ pc' # "crashed"
    ]_vars

\* file_read matched barcode 1; its mate carries the sequence of barcode
\* 2 and a read group of its own; names are changed.
C6_Witness ==
    /\ pc = "records"
    /\ p /\ file_read.paired /\ best = 1
    /\ opts.change_read_name
    /\ Deref(barcodeArray).end = 3
    /\ ~IsNull(in_rec) /\ Deref(in_rec).bc = Ptr(Deref(barcodeArray).entries[2].seq)
    /\ paired_read.rg = Ptr(<<"h", "#", "1">>)
    /\ paired_read.qname = <<"m", "#", "1">>
    /\ nFBM = 1
    /\ Deref(barcodeArray).entries[2].reads = 0

\* The sum and the maximum of field f over the entries lo..end-1 of bA.
RECURSIVE SumField(_, _, _)
SumField(bA, f, lo) ==
    IF lo >= bA.end THEN 0 ELSE bA.entries[lo][f] + SumField(bA, f, lo + 1)

MaxField(bA, f) ==
    IF bA.end <= 1 THEN 0
    ELSE CHOOSE m \in {bA.entries[i][f] : i \in 1..(bA.end - 1)} :
           \A i \in 1..(bA.end - 1) : bA.entries[i][f] <= m

RatioFields ==
    {"pct_matches", "ratio_this_barcode_to_best", "pf_pct_matches",
     "pf_ratio_this_barcode_to_best", "pf_normalized_matches"}

\* The denominator a row's ratio is said to have; row is the row's number,
\* the last row being entry 0's.
SaidDenominator(bA, f, sentinelRow) ==
    CASE f = "pct_matches" -> SumField(bA, "reads", 0)
      [] f = "ratio_this_barcode_to_best" -> MaxField(bA, "reads")
      [] f = "pf_pct_matches" -> SumField(bA, "pf_reads", 0)
      [] f = "pf_ratio_this_barcode_to_best" -> MaxField(bA, "pf_reads")
      [] f = "pf_normalized_matches" ->
            IF sentinelRow THEN 0 ELSE SumField(bA, "pf_reads", 1)

MetricsDone == call.fn = "writeMetrics" /\ ~IsNull(ret)

\* C11: the report's total_reads and total_pf_reads are the sums over all
\* entries, entry 0 included; max_reads, max_pf_reads and
\* total_pf_reads_assigned are the maxima and the sum over the real
\* entries; barcode_count is the number of real entries; a ratio with a
\* zero denominator is 0, and entry 0's pf_normalized_matches is 0.
C11_MetricsTotals ==
    MetricsDone =>
        LET bA == call.bA
            t == Deref(ret).totals
            rows == Deref(ret).rows
        IN  /\ t.total_reads = SumField(bA, "reads", 0)
            /\ t.total_pf_reads = SumField(bA, "pf_reads", 0)
            /\ t.max_reads = MaxField(bA, "reads")
            /\ t.max_pf_reads = MaxField(bA, "pf_reads")
            /\ t.total_pf_reads_assigned = SumField(bA, "pf_reads", 1)
            /\ t.nReads = bA.end - 1
            /\ Len(rows) = bA.end
            /\ \A n \in 1..Len(rows), f \in RatioFields :
                 LET den == SaidDenominator(bA, f, n = bA.end) IN
                 /\ den = 0 => rows[n][f] = [num |-> 0, den |-> 1]
                 /\ den # 0 => rows[n][f].den = den
            /\ rows[bA.end].pf_normalized_matches = [num |-> 0, den |-> 1]

\* Only entry 0 was counted into, with pass-filter reads: the totals hold
\* its reads while every sum and maximum over the two real entries is 0,
\* so the ratios with those denominators are 0.
C11_Witness ==
    /\ MetricsDone
    /\ call.bA.end = 3
    /\ call.bA.entries[0].reads = MaxReads
    /\ call.bA.entries[0].pf_reads > 0
    /\ Deref(ret).totals.total_reads = MaxReads
    /\ Deref(ret).totals.total_pf_reads_assigned = 0
    /\ Deref(ret).rows[1].ratio_this_barcode_to_best = [num |-> 0, den |-> 1]
    /\ Deref(ret).rows[3].pct_matches = [num |-> MaxReads, den |-> MaxReads]

Counters ==
    {"reads", "pf_reads", "perfect", "pf_perfect", "one_mismatch",
     "pf_one_mismatch"}

\* The step is writeMetrics: the one step that leaves pc = "metrics" with
\* the report written.
MetricsStep == pc = "metrics" /\ metrics_done'

\* C12 as stated: in every step of a run, every counter of every entry is
\* a non-negative integer afterwards and is not less than it was before.
C12_NeverDecreases ==
    [][~IsNull(barcodeArray') =>
         \A i \in 0..(Deref(barcodeArray').end - 1), c \in Counters :
           /\ Deref(barcodeArray').entries[i][c] \in Nat
           /\ ~IsNull(barcodeArray) =>
                Deref(barcodeArray').entries[i][c] >= Deref(barcodeArray).entries[i][c]]_vars

\* C12, amended: so it is in every step but for two counters in one step:
\* writing the metrics report sets perfect and pf_perfect of entry 0 to 0,
\* and changes no other counter.
C12_CountersMonotone ==
    [][~IsNull(barcodeArray') =>
         \A i \in 0..(Deref(barcodeArray').end - 1), c \in Counters :
           /\ Deref(barcodeArray').entries[i][c] \in Nat
           /\ ~IsNull(barcodeArray) =>
                IF MetricsStep
                THEN Deref(barcodeArray').entries[i][c] =
                       IF i = 0 /\ c \in {"perfect", "pf_perfect"} THEN 0
                       ELSE Deref(barcodeArray).entries[i][c]
                ELSE Deref(barcodeArray').entries[i][c] >= Deref(barcodeArray).entries[i][c]]_vars

\* The report was written after entry 0 had counted a read: its perfect
\* counter, which counted that read, is 0 again.
C12_Witness ==
    /\ pc = "done"
    /\ metrics_done
    /\ Deref(barcodeArray).entries[0].reads > 0
    /\ Deref(barcodeArray).entries[0].pf_reads > 0
    /\ Deref(barcodeArray).entries[0].perfect = 0
    /\ \E i \in 1..(Deref(barcodeArray).end - 1) :
         Deref(barcodeArray).entries[i].perfect > 0

\* The last sam_read1 met the end of the input.
StreamAtEnd == remaining = 0 /\ IsNull(in_rec)

\* C13: the table is loaded once; the header is rewritten once and written
\* before any record is written; every record read was written before the
\* next one is read; the metrics report is written at most once, only
\* after the input was read to its end, and nothing is counted after it.
C13_PhaseOrder ==
    [][/\ (barcodeArray' # barcodeArray /\ IsNull(barcodeArray)) => pc = "load"
       /\ pc' = "load" => pc = "load"
       /\ output_header' # output_header => (pc = "header" /\ nWritten = 0)
       /\ hdr_written' # hdr_written => (pc = "header" /\ nWritten = 0)
       /\ nWritten' # nWritten => hdr_written
       /\ nRead' # nRead => nWritten >= nRead
       /\ (metrics_done' /\ ~metrics_done) => (pc = "metrics" /\ StreamAtEnd)
       /\ metrics_done => (metrics_done' /\ barcodeArray' = barcodeArray)]_vars

\* C14: the observed barcode handed to findBestMatch and updateMetrics
\* has exactly tag_len characters, whatever the length of the record's
\* barcode attribute, so that countMismatches reads nothing beyond it.
C14_ObservedHasTagLen ==
    (p /\ ~IsNull(newseq)) =>
        strlen(Deref(newseq)) = Deref(barcodeArray).tag_len

\* C15: as long as no write fails, as many records were written as were
\* read: no record is written that was not read, also when the input ends
\* right after a record with the paired flag.
C15_WrittenAreRead ==
    (~write_failed /\ pc \in {"records", "metrics", "done"}) =>
        nWritten = nRead

\* C16: a paired record without the barcode attribute and its mate are
\* written as they were read, name and read group included, no counter
\* changes, and the pair never ends the run abnormally, whether or not
\* names are changed.
C16_UntaggedPairPassesThrough ==
    [][/\ (pc = "records" /\ nRead' = nRead + 1 /\ ~p') =>
            /\ pc' # "crashed"
            /\ file_read' = Deref(in_rec')
            /\ barcodeArray' = barcodeArray
       /\ (pc = "mate" /\ ~p /\ nRead' = nRead + 1) =>
            /\ pc' # "crashed"
            /\ file_read = Deref(in_rec)
            /\ paired_read' = Deref(in_rec')
            /\ barcodeArray' = barcodeArray
    ]_vars

====
